---- MODULE Spec2Model ----
(***************************************************************************)
(* A model of scrape_news.py (class NewsScraper): the scrape_article       *)
(* pipeline (validate, fetch, parse, extract title / content / author,     *)
(* assemble) over small parsed documents, and the author text normalizer   *)
(* _clean_author_text over strings.  Strings are sequences of one-         *)
(* character strings, so that length, prefix, suffix and substring tests   *)
(* are computed as Python computes them.                                   *)
(***************************************************************************)
EXTENDS Integers, Sequences, FiniteSets, TLC

VARIABLES
    url,          \* scrape_article's argument
    timeout,      \* self.timeout
    pc,           \* position of scrape_article
    requests,     \* number of requests.get calls issued so far
    status_code,  \* response.status_code, 0 while there is no response
    doc,          \* the parsed document (soup)
    title,        \* local of scrape_article
    content,      \* local of scrape_article
    author,       \* local of scrape_article
    tried,        \* the tiers of extract_author entered so far
    result,       \* the returned record, NoRecord while none
    error,        \* the raised NewsScraperError's message, <<>> while none
    lead,         \* normalizer input: leading whitespace
    parts,        \* normalizer input: the pieces it is made of
    trail,        \* normalizer input: trailing whitespace
    raw,          \* normalizer input: lead \o pieces \o trail
    cleaned,      \* _clean_author_text(raw)
    recleaned,    \* _clean_author_text(cleaned)
    npc           \* position of the normalizer run

pipeVars == <<url, timeout, pc, requests, status_code, doc, title, content,
              author, tried, result, error>>
normVars == <<lead, parts, trail, raw, cleaned, recleaned, npc>>
vars == <<url, timeout, pc, requests, status_code, doc, title, content,
          author, tried, result, error,
          lead, parts, trail, raw, cleaned, recleaned, npc>>

-----------------------------------------------------------------------------
(* Python str operations *)

\* str.isspace() of the characters the model uses
Whitespace == {" ", "\n", "\t"}

Uppers == <<"A", "B", "C", "D", "E", "F", "G", "H", "I", "J", "K", "L", "M", "N", "O", "P", "Q", "R", "S", "T", "U", "V", "W", "X", "Y", "Z">>
Lowers == <<"a", "b", "c", "d", "e", "f", "g", "h", "i", "j", "k", "l", "m", "n", "o", "p", "q", "r", "s", "t", "u", "v", "w", "x", "y", "z">>

\* the three characters of the mis-decoded bullet of line 289
ACirc == "a-circumflex"
Euro == "euro-sign"
Cent == "cent-sign"

\* str.isalpha() of one character
IsAlpha(c) ==
    \/ \E i \in 1..Len(Uppers) : Uppers[i] = c
    \/ \E i \in 1..Len(Lowers) : Lowers[i] = c
    \/ c = ACirc

\* str.lower() of one character
LowerChar(c) ==
    IF \E i \in 1..Len(Uppers) : Uppers[i] = c
    THEN Lowers[CHOOSE i \in 1..Len(Uppers) : Uppers[i] = c]
    ELSE c

\* str.lower()
Lower(s) == [i \in 1..Len(s) |-> LowerChar(s[i])]

\* s[n:]
Drop(s, n) == SubSeq(s, n + 1, Len(s))

\* s[:n]
Take(s, n) == SubSeq(s, 1, n)

\* s.startswith(p)
StartsWith(s, p) == Len(p) <= Len(s) /\ Take(s, Len(p)) = p

\* s.endswith(p)
EndsWith(s, p) == Len(p) <= Len(s) /\ Drop(s, Len(s) - Len(p)) = p

\* the positions at which p occurs in s
Occurrences(s, p) ==
    {i \in 1..(Len(s) - Len(p) + 1) : SubSeq(s, i, i + Len(p) - 1) = p}

\* p in s
Contains(s, p) == Occurrences(s, p) # {}

\* the least element of a non-empty set of integers
Min(S) == CHOOSE x \in S : \A y \in S : x <= y

\* s.strip()
Strip(s) ==
    LET keep == {i \in 1..Len(s) : s[i] \notin Whitespace}
    IN  IF keep = {} THEN <<>>
        ELSE SubSeq(s, Min(keep), CHOOSE x \in keep : \A y \in keep : y <= x)

\* s.split(sep, 1)[1], for sep in s
AfterFirst(s, sep) == Drop(s, Min(Occurrences(s, sep)) + Len(sep) - 1)

\* s.split(sep)[0]
BeforeFirst(s, sep) ==
    IF Contains(s, sep) THEN Take(s, Min(Occurrences(s, sep)) - 1) ELSE s

\* ' '.join(words) for a sequence of strings
RECURSIVE JoinSpace(_)
JoinSpace(words) ==
    IF words = <<>> THEN <<>>
    ELSE IF Len(words) = 1 THEN words[1]
    ELSE words[1] \o <<" ">> \o JoinSpace(Tail(words))

\* s.split(): the maximal runs of non-whitespace characters, in order
RECURSIVE SplitWs(_)
SplitWs(s) ==
    LET t == Strip(s)
        ws == {i \in 1..Len(t) : t[i] \in Whitespace}
    IN  IF t = <<>> THEN <<>>
        ELSE IF ws = {} THEN <<t>>
        ELSE <<Take(t, Min(ws) - 1)>> \o SplitWs(Drop(t, Min(ws)))

\* the concatenation of a sequence of strings
RECURSIVE Concat(_)
Concat(ss) == IF ss = <<>> THEN <<>> ELSE ss[1] \o Concat(Tail(ss))

-----------------------------------------------------------------------------
(* _clean_author_text, lines 260-307 *)

prefixes_to_remove ==
    << <<"B", "y", " ">>, <<"b", "y", " ">>, <<"B", "Y", " ">>,
       <<"A", "u", "t", "h", "o", "r", ":", " ">>, <<"a", "u", "t", "h", "o", "r", ":", " ">>, <<"A", "U", "T", "H", "O", "R", ":", " ">>,
       <<"W", "r", "i", "t", "t", "e", "n", " ", "b", "y", " ">>, <<"w", "r", "i", "t", "t", "e", "n", " ", "b", "y", " ">>,
       <<"R", "e", "p", "o", "r", "t", "e", "r", ":", " ">>, <<"r", "e", "p", "o", "r", "t", "e", "r", ":", " ">>,
       <<"J", "o", "u", "r", "n", "a", "l", "i", "s", "t", ":", " ">>, <<"j", "o", "u", "r", "n", "a", "l", "i", "s", "t", ":", " ">> >>

suffixes_to_remove ==
    << <<" ", "|">>, <<" ", "-">>, <<" ", ACirc, Euro, Cent>> >>

MinAuthorLen == 2
MaxAuthorLen == 100

\* lines 283-285 with a break after the first removal
RemovePrefixes_StopAtFirst(s, i) ==
    LET hits == {k \in 1..Len(prefixes_to_remove) : StartsWith(s, prefixes_to_remove[k])}
    IN  IF hits = {} THEN s
        ELSE Strip(Drop(s, Len(prefixes_to_remove[CHOOSE k \in hits : \A j \in hits : k <= j])))

\* lines 283-285: every listed prefix, in order, is tested against the
\* current string and removed (then stripped) when the string starts with it
RECURSIVE RemovePrefixes(_, _)
RemovePrefixes(s, i) ==
    IF i > Len(prefixes_to_remove) THEN s
    ELSE LET p == prefixes_to_remove[i]
         IN  RemovePrefixes(IF StartsWith(s, p) THEN Strip(Drop(s, Len(p))) ELSE s,
                            i + 1)

\* lines 292-294 with only the first listed suffix handled
RemoveSuffixes_FirstOnly(s, i) ==
    LET x == suffixes_to_remove[1]
    IN  IF EndsWith(s, x) THEN Strip(Take(s, Len(s) - Len(x))) ELSE s

\* lines 292-294
RECURSIVE RemoveSuffixes(_, _)
RemoveSuffixes(s, i) ==
    IF i > Len(suffixes_to_remove) THEN s
    ELSE LET x == suffixes_to_remove[i]
         IN  RemoveSuffixes(IF EndsWith(s, x) THEN Strip(Take(s, Len(s) - Len(x))) ELSE s,
                            i + 1)

\* the value of `cleaned` when line 297 is reached
AffixesRemoved(s) == RemoveSuffixes(RemovePrefixes(s, 1), 1)

\* line 297 with `<=` for `<`
LengthOk_MinOffByOne(s) == Len(s) > MinAuthorLen /\ Len(s) <= MaxAuthorLen

\* line 297 with `>=` for `>` on a limit one too large
LengthOk_MaxOffByOne(s) == Len(s) >= MinAuthorLen /\ Len(s) <= MaxAuthorLen + 1

\* line 297, negated
LengthOk(s) == Len(s) >= MinAuthorLen /\ Len(s) <= MaxAuthorLen

\* line 301, negated
HasLetter(s) == \E i \in 1..Len(s) : IsAlpha(s[i])

\* line 305
CollapseWhitespace(s) == JoinSpace(SplitWs(s))

\* lines 296-307
ValidateAndCollapse(c) ==
    IF ~LengthOk(c) THEN <<>>
    ELSE IF ~HasLetter(c) THEN <<>>
    ELSE CollapseWhitespace(c)

_clean_author_text(author_text) ==
    IF author_text = <<>> THEN <<>>
    ELSE ValidateAndCollapse(AffixesRemoved(author_text))

-----------------------------------------------------------------------------
(* The parsed document: a sequence of elements in document order; each     *)
(* element has a tag, its class list, its other attributes in declaration  *)
(* order, the text node it starts with, and its parent's index (0: none)   *)

Node(tag, class, attrs, text, parent) ==
    [tag |-> tag, class |-> class, attrs |-> attrs, text |-> text, parent |-> parent]

Attr(name, value) == [name |-> name, value |-> value]

\* the proper ancestors of element i
RECURSIVE Ancestors(_, _)
Ancestors(d, i) ==
    IF d[i].parent = 0 THEN {}
    ELSE {d[i].parent} \cup Ancestors(d, d[i].parent)

\* a selector: a compound (tag, class, attribute test) and, for the
\* descendant combinator, the compound an ancestor must match
Sel(tag, cls, attr, op, val) ==
    [tag |-> tag, cls |-> cls, attr |-> attr, op |-> op, val |-> val,
     atag |-> "", acls |-> <<>>]

Under(atag, acls, sel) == [sel EXCEPT !.atag = atag, !.acls = acls]

MatchesCompound(n, tag, cls, attr, op, val) ==
    /\ tag = "" \/ n.tag = tag
    /\ cls = <<>> \/ \E k \in 1..Len(n.class) : n.class[k] = cls
    /\ attr = "" \/ \E k \in 1..Len(n.attrs) :
                        /\ n.attrs[k].name = attr
                        /\ op = "has" \/ n.attrs[k].value = val

Matches(d, i, sel) ==
    /\ MatchesCompound(d[i], sel.tag, sel.cls, sel.attr, sel.op, sel.val)
    /\ \/ sel.atag = "" /\ sel.acls = <<>>
       \/ \E a \in Ancestors(d, i) :
              MatchesCompound(d[a], sel.atag, sel.acls, "", "has", <<>>)

\* the elements of d in document order, by index
Indices(d) == [i \in 1..Len(d) |-> i]

\* soup.select(selector): the matching elements in document order
Select(d, sel) == SelectSeq(Indices(d), LAMBDA i : Matches(d, i, sel))

\* element.get_text(strip=True): the stripped, non-empty text nodes of the
\* element and its descendants, concatenated without separator
RECURSIVE TextFrom(_, _, _)
TextFrom(d, i, j) ==
    IF j > Len(d) THEN <<>>
    ELSE (IF j = i \/ i \in Ancestors(d, j) THEN Strip(d[j].text) ELSE <<>>)
         \o TextFrom(d, i, j + 1)

get_text(d, i) == TextFrom(d, i, i)

\* the texts of the elements `found`, in order
Texts(d, found) == [k \in 1..Len(found) |-> get_text(d, found[k])]

\* element.get(name, ''): the first attribute of that name
GetAttr(n, name) ==
    LET ks == {k \in 1..Len(n.attrs) : n.attrs[k].name = name}
    IN  IF ks = {} THEN <<>> ELSE n.attrs[Min(ks)].value

\* the first non-empty string of a sequence of strings, <<>> if none
RECURSIVE FirstNonEmpty(_)
FirstNonEmpty(ss) ==
    IF ss = <<>> THEN <<>>
    ELSE IF ss[1] # <<>> THEN ss[1]
    ELSE FirstNonEmpty(Tail(ss))

-----------------------------------------------------------------------------
(* extract_title, lines 76-104 *)

NoTitleFound == <<"N", "o", " ", "t", "i", "t", "l", "e", " ", "f", "o", "u", "n", "d">>

title_selectors ==
    << Sel("h1", <<>>, "", "has", <<>>),
       Sel("title", <<>>, "", "has", <<>>),
       Sel("", <<>>, "data-testid", "eq", <<"h", "e", "a", "d", "l", "i", "n", "e">>),
       Sel("", <<"h", "e", "a", "d", "l", "i", "n", "e">>, "", "has", <<>>),
       Sel("", <<"a", "r", "t", "i", "c", "l", "e", "-", "t", "i", "t", "l", "e">>, "", "has", <<>>) >>

\* lines 95-104 with select() for select_one(): every match is examined
RECURSIVE TitleFrom_AllMatches(_, _)
TitleFrom_AllMatches(d, k) ==
    IF k > Len(title_selectors) THEN NoTitleFound
    ELSE LET found == Select(d, title_selectors[k])
             texts == [j \in 1..Len(found) |-> get_text(d, found[j])]
         IN  IF FirstNonEmpty(texts) # <<>>
             THEN FirstNonEmpty(texts)
             ELSE TitleFrom_AllMatches(d, k + 1)

\* lines 95-104 from selector k on: select_one takes the first match only
RECURSIVE TitleFrom(_, _)
TitleFrom(d, k) ==
    IF k > Len(title_selectors) THEN NoTitleFound
    ELSE LET found == Select(d, title_selectors[k])
         IN  IF found # <<>> /\ get_text(d, found[1]) # <<>>
             THEN get_text(d, found[1])
             ELSE TitleFrom(d, k + 1)

extract_title(d) == TitleFrom(d, 1)

-----------------------------------------------------------------------------
(* extract_content, lines 106-145 *)

NoContentAvailable == <<"N", "o", " ", "c", "o", "n", "t", "e", "n", "t", " ", "a", "v", "a", "i", "l", "a", "b", "l", "e">>

content_selectors ==
    << Sel("div", <<"z", "n", "-", "b", "o", "d", "y", "_", "_", "p", "a", "r", "a", "g", "r", "a", "p", "h">>, "", "has", <<>>),
       Sel("div", <<>>, "data-testid", "eq", <<"a", "r", "t", "i", "c", "l", "e", "-", "t", "e", "x", "t">>),
       Under("div", <<"a", "r", "t", "i", "c", "l", "e", "-", "c", "o", "n", "t", "e", "n", "t">>, Sel("p", <<>>, "", "has", <<>>)),
       Under("article", <<>>, Sel("p", <<>>, "", "has", <<>>)),
       Under("main", <<>>, Sel("p", <<>>, "", "has", <<>>)),
       Under("", <<"c", "o", "n", "t", "e", "n", "t">>, Sel("p", <<>>, "", "has", <<>>)),
       Sel("p", <<>>, "", "has", <<>>) >>

\* lines 132-136: the non-empty texts, in order
NonEmptyTexts(d, found) == SelectSeq(Texts(d, found), LAMBDA t : t # <<>>)

\* lines 129-139 without the break: the last selector with text wins
RECURSIVE ParagraphsFrom_NoBreak(_, _)
ParagraphsFrom_NoBreak(d, k) ==
    IF k > Len(content_selectors) THEN <<>>
    ELSE LET kept == NonEmptyTexts(d, Select(d, content_selectors[k]))
             later == ParagraphsFrom_NoBreak(d, k + 1)
         IN  IF later # <<>> THEN later ELSE kept

\* lines 129-139 from selector k on: content_paragraphs when the loop ends
RECURSIVE ParagraphsFrom(_, _)
ParagraphsFrom(d, k) ==
    IF k > Len(content_selectors) THEN <<>>
    ELSE LET kept == NonEmptyTexts(d, Select(d, content_selectors[k]))
         IN  IF kept # <<>> THEN kept ELSE ParagraphsFrom(d, k + 1)

extract_content(d) ==
    LET content_paragraphs == ParagraphsFrom(d, 1)
    IN  IF content_paragraphs = <<>> THEN NoContentAvailable
        ELSE JoinSpace(content_paragraphs)

-----------------------------------------------------------------------------
(* extract_author, lines 147-258 *)

AuthorNotFound == <<"A", "u", "t", "h", "o", "r", " ", "n", "o", "t", " ", "f", "o", "u", "n", "d">>

AUTHOR == <<"a", "u", "t", "h", "o", "r">>
BYLINE == <<"b", "y", "l", "i", "n", "e">>

author_selectors ==
    << Sel("", AUTHOR, "", "has", <<>>),
       Sel("", <<"a", "u", "t", "h", "o", "r", "-", "n", "a", "m", "e">>, "", "has", <<>>),
       Sel("", BYLINE, "", "has", <<>>),
       Sel("", <<"b", "y", "l", "i", "n", "e", "-", "a", "u", "t", "h", "o", "r">>, "", "has", <<>>),
       Sel("", <<"a", "r", "t", "i", "c", "l", "e", "-", "a", "u", "t", "h", "o", "r">>, "", "has", <<>>),
       Sel("", <<"w", "r", "i", "t", "e", "r">>, "", "has", <<>>),
       Sel("", <<"j", "o", "u", "r", "n", "a", "l", "i", "s", "t">>, "", "has", <<>>),
       Sel("", <<"r", "e", "p", "o", "r", "t", "e", "r">>, "", "has", <<>>),
       Sel("", <<"b", "y", "-", "a", "u", "t", "h", "o", "r">>, "", "has", <<>>),
       Sel("", <<"p", "o", "s", "t", "-", "a", "u", "t", "h", "o", "r">>, "", "has", <<>>),
       Sel("", <<"s", "t", "o", "r", "y", "-", "a", "u", "t", "h", "o", "r">>, "", "has", <<>>),
       Sel("", <<>>, "data-testid", "eq", AUTHOR),
       Sel("", <<>>, "data-testid", "eq", BYLINE),
       Sel("", <<>>, "data-author", "has", <<>>),
       Sel("", <<>>, "itemprop", "eq", AUTHOR),
       Sel("", <<>>, "itemprop", "eq", <<"n", "a", "m", "e">>),
       Sel("", <<>>, "rel", "eq", AUTHOR),
       Sel("span", AUTHOR, "", "has", <<>>),
       Sel("div", AUTHOR, "", "has", <<>>),
       Sel("p", AUTHOR, "", "has", <<>>),
       Sel("a", AUTHOR, "", "has", <<>>),
       Sel("span", BYLINE, "", "has", <<>>),
       Sel("div", BYLINE, "", "has", <<>>),
       Sel("meta", <<>>, "name", "eq", AUTHOR),
       Sel("meta", <<>>, "property", "eq", <<"a", "r", "t", "i", "c", "l", "e", ":", "a", "u", "t", "h", "o", "r">>) >>

\* the attributes the parser stores as lists of tokens, not as strings
MultiValuedAttrs ==
    {"class", "rel", "rev", "accept-charset", "headers", "accesskey", "dropzone"}

\* lines 198-201
DirectText(d, i) ==
    IF d[i].tag = "meta" THEN Strip(GetAttr(d[i], "content")) ELSE get_text(d, i)

\* lines 204-209 for the candidates' texts in order: the first cleaned
\* non-empty text, <<>> if none
CleanedFirst(texts) ==
    FirstNonEmpty([k \in 1..Len(texts) |-> _clean_author_text(texts[k])])

\* lines 193-212 from selector k on
RECURSIVE DirectFrom(_, _)
DirectFrom(d, k) ==
    IF k > Len(author_selectors) THEN <<>>
    ELSE LET found == Select(d, author_selectors[k])
             hit == CleanedFirst([j \in 1..Len(found) |-> DirectText(d, found[j])])
         IN  IF hit # <<>> THEN hit ELSE DirectFrom(d, k + 1)

\* tier 1, lines 193-212: <<>> when the loop ends without a return
DirectSelectors(d) == DirectFrom(d, 1)

\* tier 2, lines 215-224
ClassScan(d) ==
    CleanedFirst(Texts(d,
        SelectSeq(Indices(d), LAMBDA i : /\ d[i].class # <<>>
                                         /\ Contains(Lower(JoinSpace(d[i].class)), AUTHOR))))

\* tier 3, lines 227-235: an element is a candidate once for each of its
\* string-valued attributes whose value contains "author"; every such
\* candidate of one element has the same text
AttributeScan(d) ==
    CleanedFirst(Texts(d,
        SelectSeq(Indices(d), LAMBDA i : \E k \in 1..Len(d[i].attrs) :
                                            /\ d[i].attrs[k].name \notin MultiValuedAttrs
                                            /\ Contains(Lower(d[i].attrs[k].value), AUTHOR))))

text_patterns ==
    << <<"B", "y", " ">>, <<"W", "r", "i", "t", "t", "e", "n", " ", "b", "y", " ">>, <<"A", "u", "t", "h", "o", "r", ":", " ">>, <<"R", "e", "p", "o", "r", "t", "e", "r", ":", " ">>, <<"J", "o", "u", "r", "n", "a", "l", "i", "s", "t", ":", " ">> >>

\* lines 249-253 for one text node
AfterPattern(node, pattern) ==
    LET text == Strip(node)
    IN  IF Contains(text, pattern)
        THEN Strip(BeforeFirst(BeforeFirst(AfterFirst(text, pattern), <<"\n">>), <<"|">>))
        ELSE <<>>

\* lines 247-255 for one pattern: the text nodes containing it, in order
PatternHit(d, pattern) ==
    LET nodes == SelectSeq(Indices(d), LAMBDA i : /\ d[i].text # <<>>
                                                    /\ Contains(d[i].text, pattern))
    IN  FirstNonEmpty([k \in 1..Len(nodes) |-> AfterPattern(d[nodes[k]].text, pattern)])

\* tier 4, lines 246-255
TextPatterns(d) ==
    FirstNonEmpty([k \in 1..Len(text_patterns) |-> PatternHit(d, text_patterns[k])])

\* what tier k returns, <<>> when it falls through
TierResult(k, d) ==
    CASE k = 1 -> DirectSelectors(d)
      [] k = 2 -> ClassScan(d)
      [] k = 3 -> AttributeScan(d)
      [] k = 4 -> TextPatterns(d)

-----------------------------------------------------------------------------
(* validate_url, lines 35-41, over urllib.parse.urlparse *)

Digits == <<"0", "1", "2", "3", "4", "5", "6", "7", "8", "9">>

IsSchemeChar(c) ==
    \/ \E i \in 1..Len(Uppers) : Uppers[i] = c \/ Lowers[i] = c
    \/ \E i \in 1..Len(Digits) : Digits[i] = c
    \/ c \in {"+", "-", "."}

\* urlparse(url): a scheme is the text before the first ":" when it starts
\* with a letter and holds only scheme characters; a network location
\* follows "//" and ends at the first "/", "?" or "#"
urlparse(u) ==
    LET colons == Occurrences(u, <<":">>)
        i == IF colons = {} THEN 0 ELSE Min(colons)
        hasScheme == /\ i > 1
                     /\ IsAlpha(u[1]) /\ u[1] # ACirc
                     /\ \A k \in 1..(i - 1) : IsSchemeChar(u[k])
        rest == IF hasScheme THEN Drop(u, i) ELSE u
        body == Drop(rest, 2)
        ends == {k \in 1..Len(body) : body[k] \in {"/", "?", "#"}}
    IN  [scheme |-> IF hasScheme THEN Lower(Take(u, i - 1)) ELSE <<>>,
         netloc |-> IF StartsWith(rest, <<"/", "/">>)
                    THEN (IF ends = {} THEN body ELSE Take(body, Min(ends) - 1))
                    ELSE <<>>]

\* line 38 with any() for all()
validate_url_Any(u) == urlparse(u).scheme # <<>> \/ urlparse(u).netloc # <<>>

\* line 38
validate_url(u) == urlparse(u).scheme # <<>> /\ urlparse(u).netloc # <<>>

-----------------------------------------------------------------------------
(* The inputs of scrape_article: URLs, timeouts and the documents a server *)
(* may answer with                                                         *)

MaxNodes == 3

DefaultTimeout == 30
Timeouts == {DefaultTimeout, 5}

Urls ==
    { <<"h", "t", "t", "p", ":", "/", "/", "a", ".", "b", "/", "x">>, <<"n", "o", "t", " ", "a", " ", "u", "r", "l">>, <<"h", "t", "t", "p", ":", "/", "x">>, <<"/", "/", "a", ".", "b", "/", "x">>, <<"a", ".", "b">>,
      <<"h", "t", "t", "p", ":", "/", "/">>, <<>> }

JaneDoe == <<"J", "a", "n", "e", " ", "D", "o", "e">>

\* an element before it is placed in a document
Elem(tag, class, attrs, text) == Node(tag, class, attrs, text, 0)

TitleElems ==
    { Elem("h1", <<>>, <<>>, <<>>),
      Elem("h1", <<>>, <<>>, <<" ", "S", "t", "o", "r", "m", " ", "H", "i", "t", "s", " ", "C", "o", "a", "s", "t", "\n">>),
      Elem("title", <<>>, <<>>, <<"S", "t", "o", "r", "m", " ", "H", "i", "t", "s", " ", "C", "o", "a", "s", "t", " ", "-", " ", "N", "e", "w", "s", " ", "S", "i", "t", "e">>),
      Elem("span", << <<"h", "e", "a", "d", "l", "i", "n", "e">> >>, <<>>, <<"H", "i">>),
      Elem("div", <<>>, <<>>, <<"x">>) }

ContentElems ==
    { Elem("p", <<>>, <<>>, <<"A", ".">>),
      Elem("p", <<>>, <<>>, <<"B", ".">>),
      Elem("p", <<>>, <<>>, <<" ", "C", ".", "\n">>),
      Elem("article", <<>>, <<>>, <<>>),
      Elem("div", << <<"z", "n", "-", "b", "o", "d", "y", "_", "_", "p", "a", "r", "a", "g", "r", "a", "p", "h">> >>, <<>>, <<" ">>) }

AuthorElems ==
    { Elem("span", << AUTHOR >>, <<>>, JaneDoe),
      Elem("span", << <<"b", "y", "l", "i", "n", "e">> >>, <<>>, <<"B", "y", " ", "1">>),
      Elem("div", << <<"A", "u", "t", "h", "o", "r", "-", "B", "o", "x">>, <<"w", "i", "d", "e">> >>, <<>>, <<"b", "y", " ", "A", "l", " ", "-">>),
      Elem("a", <<>>, << Attr("href", <<"/", "A", "u", "t", "h", "o", "r", "s", "/", "a", "n", "n">>) >>, <<"A", "n", "n", " ", " ", "L", "e", "e">>),
      Elem("p", <<>>, <<>>, <<"S", "t", "o", "r", "y", " ", "|", " ", "B", "y", " ", "J", "o", "h", "n", " ", "S", "m", "i", "t", "h", " ", "|", " ", "S", "t", "a", "f", "f">>),
      Elem("meta", <<>>, << Attr("name", AUTHOR), Attr("content", <<" ", "W", "r", "i", "t", "t", "e", "n", " ", "b", "y", " ", "B", "o", " ">>) >>, <<>>) }

Families == {TitleElems, ContentElems, AuthorElems}

\* meta is a void element: it has no children
CanHoldChildren(e) == e.tag # "meta"

\* the parent indices that make 1..n a tree in document order: the parent
\* of i is 0, or i - 1, or an ancestor of i - 1
RECURSIVE UpChain(_, _)
UpChain(p, i) == IF i = 0 THEN {0} ELSE {i} \cup UpChain(p, p[i])

ParentMaps(n) ==
    {p \in [1..n -> 0..(n - 1)] : \A i \in 1..n : p[i] \in UpChain(p, i - 1)}

\* the elements `es` placed under the parents `p`
Placed(es, p) == [i \in 1..Len(es) |-> [es[i] EXCEPT !.parent = p[i]]]

\* a document of the model: up to MaxNodes elements of one family, under
\* any tree shape that gives no child to a void element
IsDoc(d) ==
    \E n \in 0..MaxNodes : \E p \in ParentMaps(n) : \E E \in Families :
        \E es \in [1..n -> E] :
            /\ \A i \in 1..n : IF p[i] = 0 THEN TRUE ELSE CanHoldChildren(es[p[i]])
            /\ d = Placed(es, p)

-----------------------------------------------------------------------------
(* scrape_article, lines 309-351, with fetch_page_content, lines 43-74 *)

NoRecord == [success |-> FALSE]

\* no normalizer run is in progress
NormIdle ==
    /\ lead = <<>> /\ parts = <<>> /\ trail = <<>> /\ raw = <<>>
    /\ cleaned = <<>> /\ recleaned = <<>> /\ npc = "idle"

\* str(n) for a natural number
RECURSIVE Decimal(_)
Decimal(n) ==
    IF n < 10 THEN <<Digits[n + 1]>>
    ELSE Decimal(n \div 10) \o <<Digits[(n % 10) + 1]>>

InvalidUrlMessage(u) == <<"I", "n", "v", "a", "l", "i", "d", " ", "U", "R", "L", " ", "f", "o", "r", "m", "a", "t", ":", " ">> \o u

\* line 70 without the timeout value
TimeoutMessage_NoValue(t) == <<"R", "e", "q", "u", "e", "s", "t", " ", "t", "i", "m", "e", "o", "u", "t">>

\* line 70
TimeoutMessage(t) == <<"R", "e", "q", "u", "e", "s", "t", " ", "t", "i", "m", "e", "o", "u", "t", " ", "a", "f", "t", "e", "r", " ">> \o Decimal(t) \o <<" ", "s", "e", "c", "o", "n", "d", "s">>

ConnectionMessage(u) == <<"C", "o", "n", "n", "e", "c", "t", "i", "o", "n", " ", "e", "r", "r", "o", "r", " ", "w", "h", "i", "l", "e", " ", "a", "c", "c", "e", "s", "s", "i", "n", "g", " ">> \o u

RequestFailedMessage(cause) == <<"R", "e", "q", "u", "e", "s", "t", " ", "f", "a", "i", "l", "e", "d", ":", " ">> \o cause

\* str(e) of the request-level failures the model draws from
Causes == { <<"4", "0", "4", " ", "C", "l", "i", "e", "n", "t", " ", "E", "r", "r", "o", "r">>, <<"5", "0", "0", " ", "S", "e", "r", "v", "e", "r", " ", "E", "r", "r", "o", "r">>, <<"E", "x", "c", "e", "e", "d", "e", "d", " ", "3", "0", " ", "r", "e", "d", "i", "r", "e", "c", "t", "s">> }

Init ==
    /\ url \in Urls
    /\ timeout \in Timeouts
    /\ pc = "validate"
    /\ requests = 0
    /\ status_code = 0
    /\ doc = <<>>
    /\ title = <<>> /\ content = <<>> /\ author = <<>>
    /\ tried = {}
    /\ result = NoRecord
    /\ error = <<>>
    /\ NormIdle

\* lines 56-57: the URL is refused before anything is sent
RejectUrl ==
    /\ pc = "validate"
    /\ ~validate_url(url)
    /\ error' = InvalidUrlMessage(url)
    /\ pc' = "raised"
    /\ UNCHANGED <<url, timeout, requests, status_code, doc, title, content,
                   author, tried, result>>
    /\ UNCHANGED normVars

\* line 56: the URL is accepted
AcceptUrl ==
    /\ pc = "validate"
    /\ validate_url(url)
    /\ pc' = "get"
    /\ UNCHANGED <<url, timeout, requests, status_code, doc, title, content,
                   author, tried, result, error>>
    /\ UNCHANGED normVars

\* lines 61-67 and 327: the request is answered and the body parsed
GetOk ==
    /\ pc = "get"
    /\ requests' = requests + 1
    /\ IsDoc(doc')
    /\ status_code' = 200
    /\ pc' = "title"
    /\ UNCHANGED <<url, timeout, title, content, author, tried, result, error>>
    /\ UNCHANGED normVars

\* lines 61-65, 69-70
GetTimeout ==
    /\ pc = "get"
    /\ requests' = requests + 1
    /\ error' = TimeoutMessage(timeout)
    /\ pc' = "raised"
    /\ UNCHANGED <<url, timeout, status_code, doc, title, content, author,
                   tried, result>>
    /\ UNCHANGED normVars

\* lines 61-65, 71-72
GetConnectionError ==
    /\ pc = "get"
    /\ requests' = requests + 1
    /\ error' = ConnectionMessage(url)
    /\ pc' = "raised"
    /\ UNCHANGED <<url, timeout, status_code, doc, title, content, author,
                   tried, result>>
    /\ UNCHANGED normVars

\* lines 61-66, 73-74: any other request failure, raise_for_status included
GetRequestFailed ==
    /\ pc = "get"
    /\ requests' = requests + 1
    /\ \E cause \in Causes : error' = RequestFailedMessage(cause)
    /\ pc' = "raised"
    /\ UNCHANGED <<url, timeout, status_code, doc, title, content, author,
                   tried, result>>
    /\ UNCHANGED normVars

\* line 330
ExtractTitle ==
    /\ pc = "title"
    /\ title' = extract_title(doc)
    /\ pc' = "content"
    /\ UNCHANGED <<url, timeout, requests, status_code, doc, content, author,
                   tried, result, error>>
    /\ UNCHANGED normVars

\* line 331
ExtractContent ==
    /\ pc = "content"
    /\ content' = extract_content(doc)
    /\ pc' = "tier1"
    /\ UNCHANGED <<url, timeout, requests, status_code, doc, title, author,
                   tried, result, error>>
    /\ UNCHANGED normVars

\* a tier that records its result and goes on to the next tier all the same
RunTier_NoReturn(k, next) ==
    /\ tried' = tried \cup {k}
    /\ author' = IF TierResult(k, doc) # <<>> THEN TierResult(k, doc) ELSE author
    /\ pc' = next
    /\ UNCHANGED <<url, timeout, requests, status_code, doc, title, content,
                   result, error>>
    /\ UNCHANGED normVars

\* one tier of extract_author (line 332): return its result, or fall
\* through to `next`
RunTier(k, next) ==
    /\ tried' = tried \cup {k}
    /\ IF TierResult(k, doc) # <<>>
       THEN author' = TierResult(k, doc) /\ pc' = "assemble"
       ELSE author' = author /\ pc' = next
    /\ UNCHANGED <<url, timeout, requests, status_code, doc, title, content,
                   result, error>>
    /\ UNCHANGED normVars

\* lines 193-212
AuthorTier1 == pc = "tier1" /\ RunTier(1, "tier2")

\* lines 215-224
AuthorTier2 == pc = "tier2" /\ RunTier(2, "tier3")

\* lines 227-235
AuthorTier3 == pc = "tier3" /\ RunTier(3, "tier4")

\* lines 246-255
AuthorTier4 == pc = "tier4" /\ RunTier(4, "default")

\* lines 257-258
AuthorDefault ==
    /\ pc = "default"
    /\ author' = AuthorNotFound
    /\ pc' = "assemble"
    /\ UNCHANGED <<url, timeout, requests, status_code, doc, title, content,
                   tried, result, error>>
    /\ UNCHANGED normVars

\* line 340 with the default text counted as no content
content_length_ZeroOnDefault(c) == IF c = NoContentAvailable THEN 0 ELSE Len(c)

\* line 340
content_length(c) == Len(c)

\* lines 335-346
Assemble ==
    /\ pc = "assemble"
    /\ result' = [url |-> url, title |-> title, content |-> content,
                  author |-> author, content_length |-> content_length(content),
                  status_code |-> status_code, success |-> TRUE]
    /\ pc' = "returned"
    /\ UNCHANGED <<url, timeout, requests, status_code, doc, title, content,
                   author, tried, error>>
    /\ UNCHANGED normVars

Next ==
    \/ RejectUrl \/ AcceptUrl
    \/ GetOk \/ GetTimeout \/ GetConnectionError \/ GetRequestFailed
    \/ ExtractTitle \/ ExtractContent
    \/ AuthorTier1 \/ AuthorTier2 \/ AuthorTier3 \/ AuthorTier4 \/ AuthorDefault
    \/ Assemble

Spec == Init /\ [][Next]_vars

-----------------------------------------------------------------------------
(* Properties of scrape_article *)

Tiers == 1..4

\* the element i is the first .author element whose text survives cleaning
FirstUsableAuthorClass(d, i) ==
    /\ Matches(d, i, author_selectors[1])
    /\ _clean_author_text(get_text(d, i)) # <<>>
    /\ \A j \in 1..(i - 1) :
          Matches(d, j, author_selectors[1])
              => _clean_author_text(get_text(d, j)) = <<>>

\* the document of the cascade example: a .author element reading
\* "Jane Doe" and a paragraph containing "By John Smith"
JaneAndJohn(d) ==
    /\ \E i \in 1..Len(d) :
          FirstUsableAuthorClass(d, i) /\ get_text(d, i) = JaneDoe
    /\ \E j \in 1..Len(d) :
          d[j].tag = "p" /\ Contains(d[j].text, <<"B", "y", " ", "J", "o", "h", "n", " ", "S", "m", "i", "t", "h">>)

\* C1: the tiers of extract_author are entered in order, a tier only when
\* every earlier tier gave nothing, and the author returned is the result
\* of the first tier that gives something (the default text when none
\* does); a document with a .author element "Jane Doe" and a paragraph
\* "By John Smith" gives "Jane Doe".
C1_TiersInOrder ==
    pc = "returned" =>
        LET hits == {k \in Tiers : TierResult(k, doc) # <<>>}
        IN  /\ tried = IF hits = {} THEN Tiers ELSE 1..Min(hits)
            /\ result.author = IF hits = {} THEN AuthorNotFound
                               ELSE TierResult(Min(hits), doc)
            /\ JaneAndJohn(doc) => result.author = JaneDoe

C1_Witness ==
    /\ pc = "returned" /\ JaneAndJohn(doc)
    /\ tried = {1} /\ result.author = JaneDoe
    /\ TierResult(4, doc) = <<"J", "o", "h", "n", " ", "S", "m", "i", "t", "h">>

\* no title, content or author rule finds anything in d
NoRuleMatches(d) ==
    /\ \A k \in 1..Len(title_selectors) : Select(d, title_selectors[k]) = <<>>
    /\ \A k \in 1..Len(content_selectors) : Select(d, content_selectors[k]) = <<>>
    /\ \A k \in 1..Len(author_selectors) : Select(d, author_selectors[k]) = <<>>
    /\ \A i \in 1..Len(d) :
          /\ ~Contains(Lower(JoinSpace(d[i].class)), AUTHOR)
          /\ \A a \in 1..Len(d[i].attrs) : ~Contains(Lower(d[i].attrs[a].value), AUTHOR)
          /\ \A k \in 1..Len(text_patterns) : ~Contains(d[i].text, text_patterns[k])

\* C2: when no rule matches anything, as in an empty document, the record
\* holds the three default texts and content_length is the length of the
\* content default, 20 characters.
C2_TotalMissDefaults ==
    (pc = "returned" /\ NoRuleMatches(doc))
    => /\ result.title = NoTitleFound
       /\ result.content = NoContentAvailable
       /\ result.author = AuthorNotFound
       /\ result.content_length = Len(NoContentAvailable)
       /\ result.content_length = 20

C2_Witness ==
    /\ pc = "returned" /\ doc = <<>>
    /\ result.title = NoTitleFound
    /\ result.content_length = 20

\* the URL lacks a scheme or a network location
LacksSchemeOrNetloc(u) == urlparse(u).scheme = <<>> \/ urlparse(u).netloc = <<>>

\* C3: for a URL without scheme or network location no request is ever
\* issued, no record is produced, and the run ends with the invalid-URL
\* error.
C3_InvalidUrlNeverFetched ==
    (pc # "idle" /\ LacksSchemeOrNetloc(url))
    => /\ requests = 0
       /\ result = NoRecord
       /\ pc \in {"validate", "raised"}
       /\ pc = "raised" => error = InvalidUrlMessage(url)

C3_Witness ==
    /\ pc = "raised" /\ url = <<"n", "o", "t", " ", "a", " ", "u", "r", "l">>
    /\ requests = 0 /\ error = <<"I", "n", "v", "a", "l", "i", "d", " ", "U", "R", "L", " ", "f", "o", "r", "m", "a", "t", ":", " ", "n", "o", "t", " ", "a", " ", "u", "r", "l">>

\* a request has failed
FetchFails == GetTimeout \/ GetConnectionError \/ GetRequestFailed

\* C4: a failed fetch raises after exactly one request, the raised state is
\* final and holds no record, and a timeout's message contains the
\* configured timeout value.
C4_FetchFailureSurfacesOnce ==
    /\ [](pc = "raised" => result = NoRecord /\ error # <<>> /\ requests <= 1)
    /\ [][FetchFails => (pc' = "raised" /\ requests' = 1 /\ error' # <<>>)]_vars
    /\ [][GetTimeout => Contains(error', Decimal(timeout))]_vars
    /\ [][pc = "raised" => (pc' = "raised" /\ requests' = requests
                            /\ result' = NoRecord)]_vars

C4_Witness ==
    /\ pc = "raised" /\ requests = 1 /\ result = NoRecord
    /\ timeout = 5 /\ error = <<"R", "e", "q", "u", "e", "s", "t", " ", "t", "i", "m", "e", "o", "u", "t", " ", "a", "f", "t", "e", "r", " ", "5", " ", "s", "e", "c", "o", "n", "d", "s">>

\* the texts of all the elements selector k of `sels` matches, in order
MatchedTexts(d, sels, k) ==
    LET found == Select(d, sels[k])
    IN  [j \in 1..Len(found) |-> get_text(d, found[j])]

\* C5 as stated: the title is the first non-empty text among all the
\* elements matched by the first rule that has one.
C5_TitleFromAnyMatch ==
    pc = "returned" =>
        LET usable == {k \in 1..Len(title_selectors) :
                          \E j \in 1..Len(MatchedTexts(doc, title_selectors, k)) :
                              MatchedTexts(doc, title_selectors, k)[j] # <<>>}
        IN  result.title = IF usable = {} THEN NoTitleFound
                           ELSE FirstNonEmpty(MatchedTexts(doc, title_selectors, Min(usable)))

\* C5, amended: of each rule only the first matched element is examined;
\* the title is that element's trimmed text for the first rule where it is
\* not empty, whatever the rule's other matches hold.
C5_TitleFromFirstMatch ==
    pc = "returned" =>
        LET usable == {k \in 1..Len(title_selectors) :
                          /\ MatchedTexts(doc, title_selectors, k) # <<>>
                          /\ MatchedTexts(doc, title_selectors, k)[1] # <<>>}
        IN  result.title = IF usable = {} THEN NoTitleFound
                           ELSE MatchedTexts(doc, title_selectors, Min(usable))[1]

\* the first h1 is empty, a later h1 has text, and the title element's text
\* is returned
C5_Witness ==
    /\ pc = "returned" /\ Len(doc) = 3
    /\ doc[1].tag = "h1" /\ get_text(doc, 1) = <<>>
    /\ doc[2].tag = "h1" /\ get_text(doc, 2) = <<"S", "t", "o", "r", "m", " ", "H", "i", "t", "s", " ", "C", "o", "a", "s", "t">>
    /\ doc[3].tag = "title"
    /\ result.title = <<"S", "t", "o", "r", "m", " ", "H", "i", "t", "s", " ", "C", "o", "a", "s", "t", " ", "-", " ", "N", "e", "w", "s", " ", "S", "i", "t", "e">>

\* three top-level paragraphs reading A., B. and C.
ThreeParagraphs(d) ==
    /\ Len(d) = 3
    /\ \A i \in 1..3 : d[i].tag = "p" /\ d[i].parent = 0
    /\ Strip(d[1].text) = <<"A", ".">> /\ Strip(d[2].text) = <<"B", ".">>
    /\ Strip(d[3].text) = <<"C", ".">>

\* C6: the content is the space-joined non-empty trimmed texts, in document
\* order, of all elements matched by the first rule that matches an element
\* with text; three paragraphs A., B., C. give "A. B. C.".
C6_ContentFromFirstRuleWithText ==
    pc = "returned" =>
        LET usable == {k \in 1..Len(content_selectors) :
                          \E j \in 1..Len(MatchedTexts(doc, content_selectors, k)) :
                              MatchedTexts(doc, content_selectors, k)[j] # <<>>}
        IN  /\ result.content =
                  IF usable = {} THEN NoContentAvailable
                  ELSE JoinSpace(SelectSeq(MatchedTexts(doc, content_selectors, Min(usable)),
                                           LAMBDA t : t # <<>>))
            /\ ThreeParagraphs(doc) => result.content = <<"A", ".", " ", "B", ".", " ", "C", ".">>

C6_Witness ==
    /\ pc = "returned" /\ ThreeParagraphs(doc)
    /\ result.content = <<"A", ".", " ", "B", ".", " ", "C", ".">>

-----------------------------------------------------------------------------
(* Normalizer runs: inputs are built from attribution prefixes, separators, *)
(* names and filler, with optional whitespace at either end                 *)

MaxParts == 3

LongFiller == [i \in 1..(MaxAuthorLen - 1) |-> "A"]

PrefixPieces == { <<"B", "y", " ">>, <<"A", "u", "t", "h", "o", "r", ":", " ">>, <<"j", "o", "u", "r", "n", "a", "l", "i", "s", "t", ":", " ">> }
SuffixPieces == { <<" ", "|">>, <<" ", "-">>, <<" ", ACirc, Euro, Cent>> }
NamePieces == { JaneDoe, <<"A", "l">> }
OtherPieces == { <<"J", " ", " ", "D">>, <<"A">>, <<"1", "2", "3", "4", "5">>, <<"x">>, LongFiller }
Pieces == PrefixPieces \cup SuffixPieces \cup NamePieces \cup OtherPieces
Edges == { <<>>, <<" ">> }

PieceSeqs == UNION {[1..n -> Pieces] : n \in 0..MaxParts}

PipeIdle ==
    /\ url = <<>> /\ timeout = DefaultTimeout /\ pc = "idle" /\ requests = 0
    /\ status_code = 0 /\ doc = <<>> /\ title = <<>> /\ content = <<>>
    /\ author = <<>> /\ tried = {} /\ result = NoRecord /\ error = <<>>

NormInit ==
    /\ PipeIdle
    /\ lead \in Edges
    /\ parts \in PieceSeqs
    /\ trail \in Edges
    /\ raw = lead \o Concat(parts) \o trail
    /\ cleaned = <<>> /\ recleaned = <<>>
    /\ npc = "raw"

\* a caller passes raw to _clean_author_text
Normalize ==
    /\ npc = "raw"
    /\ cleaned' = _clean_author_text(raw)
    /\ npc' = "once"
    /\ UNCHANGED <<lead, parts, trail, raw, recleaned>>
    /\ UNCHANGED pipeVars

\* the result is passed to _clean_author_text again
NormalizeAgain ==
    /\ npc = "once"
    /\ recleaned' = _clean_author_text(cleaned)
    /\ npc' = "twice"
    /\ UNCHANGED <<lead, parts, trail, raw, cleaned>>
    /\ UNCHANGED pipeVars

NormNext == Normalize \/ NormalizeAgain

NormSpec == NormInit /\ [][NormNext]_vars

-----------------------------------------------------------------------------
(* Properties of the normalizer *)

Normalized == npc \in {"once", "twice"}

StartsWithListedPrefix(s) ==
    \E i \in 1..Len(prefixes_to_remove) : StartsWith(s, prefixes_to_remove[i])

EndsWithListedSuffix(s) ==
    \E i \in 1..Len(suffixes_to_remove) : EndsWith(s, suffixes_to_remove[i])

ListIndex(p) == CHOOSE i \in 1..Len(prefixes_to_remove) : prefixes_to_remove[i] = p

\* the input is a prefix, a second prefix and a name
TwoPrefixInput ==
    /\ lead = <<>> /\ Len(parts) = 3
    /\ parts[1] \in PrefixPieces /\ parts[2] \in PrefixPieces
    /\ parts[3] \in NamePieces

\* the input is a prefix, a name and a separator
AffixedInput ==
    /\ Len(parts) = 3
    /\ parts[1] \in PrefixPieces /\ parts[2] \in NamePieces
    /\ parts[3] \in SuffixPieces

\* C7 as stated: normalizing a normalized string changes nothing, for every
\* input.
C7_Idempotent == npc = "twice" => recleaned = cleaned

\* C7, amended: normalizing a normalized string changes nothing when the
\* normalized string is empty, or has at least MinAuthorLen characters and
\* neither starts with a listed prefix nor ends with a listed suffix.
C7_IdempotentOnSettled ==
    (/\ npc = "twice"
     /\ \/ cleaned = <<>>
        \/ /\ Len(cleaned) >= MinAuthorLen
           /\ ~StartsWithListedPrefix(cleaned)
           /\ ~EndsWithListedSuffix(cleaned))
    => recleaned = cleaned

C7_Witness ==
    /\ npc = "twice" /\ cleaned # <<>> /\ cleaned # raw
    /\ Len(cleaned) >= MinAuthorLen
    /\ ~StartsWithListedPrefix(cleaned) /\ ~EndsWithListedSuffix(cleaned)
    /\ recleaned = cleaned

\* C8 as stated: only the first listed prefix the input starts with is
\* removed; the remainder keeps any further prefix.
C8_AtMostOnePrefix ==
    (Normalized /\ raw # <<>>)
    => cleaned = ValidateAndCollapse(
                    RemoveSuffixes(RemovePrefixes_StopAtFirst(raw, 1), 1))

\* C8, amended: each listed prefix is tested once, in listed order, against
\* the current string; after a prefix is removed, a second prefix at the
\* head of the remainder is removed too exactly when it is listed later
\* than the first.
C8_PrefixesRemovedInListOrder ==
    (Normalized /\ TwoPrefixInput)
    => cleaned = IF ListIndex(parts[1]) < ListIndex(parts[2])
                 THEN parts[3]
                 ELSE parts[2] \o parts[3]

C8_Witness ==
    /\ Normalized /\ TwoPrefixInput
    /\ ListIndex(parts[1]) < ListIndex(parts[2])
    /\ cleaned = parts[3]

\* C9 as stated: a non-empty result has between MinAuthorLen and
\* MaxAuthorLen characters and a letter, and an input whose collapsed and
\* trimmed form breaks those limits gives the empty string.
C9_LimitsOnFinalResult ==
    Normalized =>
        LET final == CollapseWhitespace(AffixesRemoved(raw))
        IN  /\ cleaned # <<>> =>
                /\ Len(cleaned) >= MinAuthorLen /\ Len(cleaned) <= MaxAuthorLen
                /\ HasLetter(cleaned)
            /\ (Len(final) < MinAuthorLen \/ Len(final) > MaxAuthorLen
                    \/ ~HasLetter(final)) => cleaned = <<>>

\* C9, amended: the limits are measured before whitespace is collapsed.  A
\* non-empty result comes from a string of MinAuthorLen..MaxAuthorLen
\* characters (after prefix and suffix removal), has a letter and at most
\* MaxAuthorLen characters, and has at least MinAuthorLen characters when
\* the input had no whitespace at its ends; an input whose string before
\* the collapse breaks the limits or has no letter gives the empty string.
C9_LimitsBeforeCollapse ==
    Normalized =>
        LET before == AffixesRemoved(raw)
        IN  /\ cleaned # <<>> =>
                /\ Len(before) >= MinAuthorLen /\ Len(before) <= MaxAuthorLen
                /\ Len(cleaned) >= 1 /\ Len(cleaned) <= MaxAuthorLen
                /\ HasLetter(cleaned)
                /\ Strip(raw) = raw => Len(cleaned) >= MinAuthorLen
            /\ (Len(before) < MinAuthorLen \/ Len(before) > MaxAuthorLen
                    \/ ~HasLetter(before)) => cleaned = <<>>

C9_Witness ==
    /\ Normalized /\ cleaned # <<>>
    /\ Len(AffixesRemoved(raw)) = MaxAuthorLen

\* C10 as stated: optional leading whitespace, a listed prefix, a valid
\* name and a listed separator normalize to the name.
C10_AffixesRemovedAfterWhitespace ==
    (Normalized /\ AffixedInput /\ trail = <<>>) => cleaned = parts[2]

\* C10, amended: a listed prefix, a valid name and a listed separator,
\* optionally followed by whitespace, normalize to the name; with leading
\* whitespace the prefix is not recognised and only the separator is
\* removed.
C10_AffixesRemovedWithoutLeadingWhitespace ==
    (Normalized /\ AffixedInput)
    => /\ lead = <<>> => cleaned = parts[2]
       /\ (lead # <<>> /\ trail = <<>>) => cleaned = parts[1] \o parts[2]

C10_Witness ==
    /\ Normalized
    /\ raw = <<" ", "B", "y", " ", "J", "a", "n", "e", " ", "D", "o", "e", " ", "|">>
    /\ cleaned = <<"B", "y", " ", "J", "a", "n", "e", " ", "D", "o", "e">>

====
